---- MODULE Spec2Model ----
(***************************************************************************)
(* A model of pwiki's wikitext document model and parser                   *)
(* (src/pwiki/wparser.py): WikiText, WikiTemplate, WikiExt and WParser.    *)
(*                                                                         *)
(* Python objects live in a heap: WikiText object i is the node list       *)
(* wt[i] (its _l), WikiTemplate object i is the record tp[i].  A Python    *)
(* value is a record [ty, s, id]: its type name, its characters (a str is  *)
(* a sequence of one-character strings) and, for an object, its heap id.   *)
(***************************************************************************)
EXTENDS Integers, Sequences, FiniteSets, TLC

VARIABLES
    wt,     \* wt[i]: the node list _l of WikiText object i
    tp,     \* tp[i]: [title, params, parent] of WikiTemplate object i
    last,   \* the last call made: its name, receiver, arguments and outcome
    req,    \* the parse request in flight and the server's reply to it
    up      \* the frame of the upload_only call in progress

vars == <<wt, tp, last, req, up>>

\* ------------------------------------------------------------ bounds
MaxSize == 5        \* objects, nodes and parameters the caller builds in the heap
MaxTemplates == 2   \* templates of a caller that normalizes titles
MaxDepth == 2       \* templates nested in the pages that are read
MaxRun == 2         \* characters in one text run

\* ------------------------------------------------------ Python values
None == [ty |-> "NoneType", s |-> <<>>, id |-> 0]
Str(s) == [ty |-> "str", s |-> s, id |-> 0]
PyInt(n) == [ty |-> "int", s |-> <<>>, id |-> n]
TRef(t) == [ty |-> "WikiTemplate", s |-> <<>>, id |-> t]
WRef(w) == [ty |-> "WikiText", s |-> <<>>, id |-> w]

IsStr(v) == v.ty = "str"
IsTemplate(v) == v.ty = "WikiTemplate"
IsWikiText(v) == v.ty = "WikiText"

\* bool(v) of a str, a number or None
Bool(b) == [ty |-> "bool", s |-> <<>>, id |-> IF b THEN 1 ELSE 0]
PyBool(v) == (IsStr(v) /\ v.s # <<>>) \/ (v.ty = "int" /\ v.id # 0)

\* The outcome of a call on heap h: the heap it leaves, the value it returns
\* and the exception it raises ("" when it returns).
Ret(h, v) == [h |-> h, v |-> v, exc |-> ""]
Raise(h, e) == [h |-> h, v |-> None, exc |-> e]

EmptyHeap == [wt |-> <<>>, tp |-> <<>>]

\* ------------------------------------------------------------ strings
Whitespace == {" ", "\n"}

RECURSIVE LStrip(_)
LStrip(s) == IF s # <<>> /\ Head(s) \in Whitespace THEN LStrip(Tail(s)) ELSE s

RECURSIVE RStrip(_)
RStrip(s) ==
    IF s # <<>> /\ s[Len(s)] \in Whitespace THEN RStrip(SubSeq(s, 1, Len(s) - 1)) ELSE s

\* str.strip()
Strip(s) == RStrip(LStrip(s))

RECURSIVE Concat(_)
Concat(ss) == IF ss = <<>> THEN <<>> ELSE Head(ss) \o Concat(Tail(ss))

\* ---------------------------------------------------------- WikiText
\* WikiText.__bool__
WikiTextBool(h, w) == h.wt[w] # <<>>

SetParent(h, t, p) == [h EXCEPT !.tp[t].parent = p]

\* an append of a str that never merges it into the trailing text run
IaddStrNoMerge(h, w, o) ==
    LET l == h.wt[w] IN
    IF o.s = <<>> THEN h ELSE [h EXCEPT !.wt[w] = Append(l, o)]

\* One pass of WikiText.__iadd__ for a str or a WikiTemplate, or the TypeError.
IaddStr(h, w, o) ==
    LET l == h.wt[w] IN
    IF o.s = <<>> THEN h
    ELSE IF l # <<>> /\ IsStr(l[Len(l)])
         THEN [h EXCEPT !.wt[w][Len(l)] = Str(l[Len(l)].s \o o.s)]
         ELSE [h EXCEPT !.wt[w] = Append(l, o)]

IaddTemplate(h, w, o) == SetParent([h EXCEPT !.wt[w] = Append(h.wt[w], o)], o.id, WRef(w))

\* `for e in other._l: self += e` never returns when other is self and holds a
\* template: every pass appends, so the list iterator never reaches the end.
IaddDiverges(h, w, o) ==
    IsWikiText(o) /\ o.id = w /\ \E i \in 1..Len(h.wt[w]) : ~IsStr(h.wt[w][i])

RECURSIVE Iadd(_, _, _)
RECURSIVE IaddLoop(_, _, _, _)
\* WikiText.__iadd__(self = w, other = o)
Iadd(h, w, o) ==
    IF IsStr(o) THEN Ret(IaddStr(h, w, o), WRef(w))
    ELSE IF IsTemplate(o) THEN Ret(IaddTemplate(h, w, o), WRef(w))
    ELSE IF IsWikiText(o) THEN
        IF IaddDiverges(h, w, o) THEN Raise(h, "Diverges") ELSE IaddLoop(h, w, o.id, 1)
    ELSE Raise(h, "TypeError")

\* an append of a WikiText that extends the node list with the other's nodes as they are
IaddLoopExtend(h, w, o, i) == Ret([h EXCEPT !.wt[w] = @ \o h.wt[o]], WRef(w))

\* an append of a WikiText that stores the other WikiText as one node
IaddLoopNest(h, w, o, i) == Ret([h EXCEPT !.wt[w] = Append(@, WRef(o))], WRef(w))

\* The for loop of __iadd__: the list iterator reads other._l[i] as it is now.
IaddLoop(h, w, o, i) ==
    IF i > Len(h.wt[o]) THEN Ret(h, WRef(w))
    ELSE LET r == Iadd(h, w, h.wt[o][i]) IN
         IF r.exc # "" THEN r ELSE IaddLoop(r.h, w, o, i + 1)

RECURSIVE IaddAll(_, _, _)
\* `for e in elements: self += e`
IaddAll(h, w, es) ==
    IF es = <<>> THEN Ret(h, WRef(w))
    ELSE LET r == Iadd(h, w, Head(es)) IN
         IF r.exc # "" THEN r ELSE IaddAll(r.h, w, Tail(es))

\* WikiText.__init__(*elements): the new object is wt[Len(wt) + 1]
NewWikiText(h, es) ==
    LET w == Len(h.wt) + 1 IN IaddAll([h EXCEPT !.wt = Append(h.wt, <<>>)], w, es)

\* WikiText.templates
Templates(h, w) == SelectSeq(h.wt[w], IsTemplate)

\* ------------------------------------------------------- WikiTemplate
\* dict operations on an ordered list of [k, v] entries
HasKey(ps, k) == \E i \in 1..Len(ps) : ps[i].k = k
KeyIndex(ps, k) == CHOOSE i \in 1..Len(ps) : ps[i].k = k
DictGet(ps, k) == ps[KeyIndex(ps, k)].v
DictSet(ps, k, v) ==
    IF HasKey(ps, k) THEN [ps EXCEPT ![KeyIndex(ps, k)].v = v]
    ELSE Append(ps, [k |-> k, v |-> v])
DictDel(ps, i) == SubSeq(ps, 1, i - 1) \o SubSeq(ps, i + 1, Len(ps))

\* WikiTemplate.__contains__
Contains(h, t, k) == HasKey(h.tp[t].params, k)

\* an assignment that stores the value as it was given
SetItemRaw(h, t, k, v) ==
    IF ~IsStr(k) THEN Raise(h, "TypeError")
    ELSE IF ~(IsStr(v) \/ IsTemplate(v) \/ IsWikiText(v)) THEN Raise(h, "TypeError")
    ELSE Ret([h EXCEPT !.tp[t].params = DictSet(@, k, v)], None)

\* an assignment that takes a key of any type
SetItemAnyKey(h, t, k, v) ==
    IF IsWikiText(v) THEN Ret([h EXCEPT !.tp[t].params = DictSet(@, k, v)], None)
    ELSE LET r == NewWikiText(h, <<v>>) IN
         IF r.exc # "" THEN r
         ELSE Ret([r.h EXCEPT !.tp[t].params = DictSet(@, k, r.v)], None)

\* WikiTemplate.__setitem__(self = t, key = k, value = v)
SetItem(h, t, k, v) ==
    IF ~IsStr(k) THEN Raise(h, "TypeError")
    ELSE IF ~(IsStr(v) \/ IsTemplate(v) \/ IsWikiText(v)) THEN Raise(h, "TypeError")
    ELSE IF IsWikiText(v) THEN Ret([h EXCEPT !.tp[t].params = DictSet(@, k, v)], None)
    ELSE LET r == NewWikiText(h, <<v>>) IN
         IF r.exc # "" THEN r
         ELSE Ret([r.h EXCEPT !.tp[t].params = DictSet(@, k, r.v)], None)

RECURSIVE SetItems(_, _, _)
\* `for k, v in params.items(): self[k] = v`
SetItems(h, t, kvs) ==
    IF kvs = <<>> THEN Ret(h, TRef(t))
    ELSE LET r == SetItem(h, t, Head(kvs).k, Head(kvs).v) IN
         IF r.exc # "" THEN r ELSE SetItems(r.h, t, Tail(kvs))

\* WikiTemplate.__init__(title, params, parent): the new object is tp[Len(tp) + 1]
NewTemplate(h, title, kvs, parent) ==
    LET t == Len(h.tp) + 1
        h1 == [h EXCEPT !.tp = Append(h.tp, [title |-> title, params |-> <<>>, parent |-> parent])]
    IN  SetItems(h1, t, kvs)

\* dict.pop(k) / dict.popitem() under suppress(KeyError): WikiTemplate.pop(k)
Pop(h, t, k) ==
    LET ps == h.tp[t].params IN
    IF PyBool(k) THEN                       \* `if k`: a non-empty key
        IF HasKey(ps, k)
        THEN Ret([h EXCEPT !.tp[t].params = DictDel(ps, KeyIndex(ps, k))], DictGet(ps, k))
        ELSE Ret(h, None)                   \* KeyError, suppressed
    ELSE                                    \* None or "": popitem(), the last entry
        IF ps = <<>> THEN Ret(h, None)      \* KeyError, suppressed
        ELSE Ret([h EXCEPT !.tp[t].params = DictDel(ps, Len(ps))], ps[Len(ps)].v)

RECURSIVE PyEq(_, _, _)
RECURSIVE ListEq(_, _, _)
RECURSIVE DictEq(_, _, _)
\* a == b: WikiText.__eq__, WikiTemplate.__eq__, and == of str, None and int.
\* Containers compare each pair of elements by identity first, then by ==.
PyEq(h, a, b) ==
    IF a = b THEN TRUE
    ELSE IF a.ty # b.ty THEN FALSE
    ELSE IF IsWikiText(a) THEN ListEq(h, h.wt[a.id], h.wt[b.id])
    ELSE IF IsTemplate(a) THEN
        /\ PyEq(h, h.tp[a.id].title, h.tp[b.id].title)
        /\ DictEq(h, h.tp[a.id].params, h.tp[b.id].params)
    ELSE FALSE

ListEq(h, l1, l2) ==
    /\ Len(l1) = Len(l2)
    /\ \A i \in 1..Len(l1) : PyEq(h, l1[i], l2[i])

\* a comparison of parameter maps entry by entry, in insertion order
DictEqOrdered(h, p1, p2) ==
    /\ Len(p1) = Len(p2)
    /\ \A i \in 1..Len(p1) : p1[i].k = p2[i].k /\ PyEq(h, p1[i].v, p2[i].v)

\* dict.__eq__: the same keys, each with equal values
DictEq(h, p1, p2) ==
    /\ Len(p1) = Len(p2)
    /\ \A i \in 1..Len(p1) : HasKey(p2, p1[i].k) /\ PyEq(h, p1[i].v, DictGet(p2, p1[i].k))

\* list.remove(x): the index of the first element that is x or equals x (0: none)
RemoveIndex(h, l, x) ==
    IF \E i \in 1..Len(l) : PyEq(h, l[i], x)
    THEN CHOOSE i \in 1..Len(l) : PyEq(h, l[i], x) /\ \A j \in 1..(i - 1) : ~PyEq(h, l[j], x)
    ELSE 0

\* WikiTemplate.drop()
Drop(h, t) ==
    LET p == h.tp[t].parent IN
    IF IsWikiText(p) /\ WikiTextBool(h, p.id) THEN      \* `if self.parent`
        LET i == RemoveIndex(h, h.wt[p.id], TRef(t)) IN
        IF i = 0 THEN Raise(h, "ValueError")
        ELSE Ret(SetParent([h EXCEPT !.wt[p.id] = SubSeq(@, 1, i - 1) \o SubSeq(@, i + 1, Len(@))],
                           t, None), None)
    ELSE Ret(h, None)

\* WikiTemplate.remap(old_key, new_key)
Remap(h, t, old, new) ==
    IF Contains(h, t, old)
    THEN LET r == Pop(h, t, old) IN SetItem(r.h, t, new, r.v)
    ELSE Ret(h, None)

\* WikiTemplate.touch(k)
Touch(h, t, k) ==
    IF ~Contains(h, t, k)
    THEN LET r == NewWikiText(h, <<>>) IN SetItem(r.h, t, k, r.v)
    ELSE Ret(h, None)

\* append_to_params assigning e where it is to append it
AppendToParamsAssigns(h, t, k, e) == SetItem(h, t, k, e)

\* WikiTemplate.append_to_params(k, e)
AppendToParams(h, t, k, e) ==
    IF Contains(h, t, k)
    THEN LET v == DictGet(h.tp[t].params, k)         \* self[k]
             r == Iadd(h, v.id, e)                   \* += e
         IN  IF r.exc # "" THEN r ELSE SetItem(r.h, t, k, r.v)   \* self[k] = ...
    ELSE SetItem(h, t, k, e)

\* ------------------------------------------------------------ as_text
NoneChars == <<"N", "o", "n", "e">>

RECURSIVE PyStr(_, _)
RECURSIVE WikiTextAsText(_, _, _)
RECURSIVE TemplateAsText(_, _, _)
RECURSIVE ParamsAsText(_, _, _)
\* str(v)
PyStr(h, v) ==
    IF IsStr(v) THEN v.s
    ELSE IF IsTemplate(v) THEN TemplateAsText(h, v.id, FALSE)   \* WikiTemplate.__str__
    ELSE IF IsWikiText(v) THEN WikiTextAsText(h, v.id, TRUE)    \* WikiText.__str__
    ELSE IF v = None THEN NoneChars
    ELSE <<"1">>

\* as_text stripping its result whatever `trim` says
WikiTextAsTextStripped(h, w, trim) ==
    Strip(Concat([i \in 1..Len(h.wt[w]) |-> PyStr(h, h.wt[w][i])]))

\* WikiText.as_text(trim)
WikiTextAsText(h, w, trim) ==
    LET out == Concat([i \in 1..Len(h.wt[w]) |-> PyStr(h, h.wt[w][i])])
    IN  IF trim THEN Strip(out) ELSE out

ParamsAsText(h, ps, prefix) ==
    IF ps = <<>> THEN <<>>
    ELSE prefix \o PyStr(h, Head(ps).k) \o <<"=">> \o PyStr(h, Head(ps).v)
         \o ParamsAsText(h, Tail(ps), prefix)

\* WikiTemplate.as_text(indent)
TemplateAsText(h, t, indent) ==
    LET prefix == (IF indent THEN <<"\n">> ELSE <<>>) \o <<"|">>
        out == ParamsAsText(h, h.tp[t].params, prefix) \o (IF indent THEN <<"\n">> ELSE <<>>)
    IN  <<"{", "{">> \o PyStr(h, h.tp[t].title) \o out \o <<"}", "}">>

\* ------------------------------------------------------------ WikiExt
\* WikiExt._squash(): WikiText(f"<{name}{attr or ''}>", inner, close)
Squash(h, name, attr, inner, close) ==
    NewWikiText(h, << Str(<<"<">> \o PyStr(h, name) \o (IF PyBool(attr) THEN attr.s ELSE <<>>) \o <<">">>),
                      inner, close >>)

\* ------------------------------------------------------------ WParser
\* An ElementTree.Element is [tag, index, text, kids, tail]: index is its
\* "index" attribute, and an absent attribute or text is <<>> (ElementTree
\* gives None for the text of an element without text, never "").
XmlText(s) == IF s = <<>> THEN None ELSE Str(s)

RECURSIVE ParseWikiText(_, _, _)
RECURSIVE ParseKids(_, _, _, _, _)
RECURSIVE ParseWikiExt(_, _)
RECURSIVE ParseExtKids(_, _, _, _)
RECURSIVE ParseWikiTemplate(_, _)
RECURSIVE ParseTemplateKids(_, _, _, _)
RECURSIVE ParseTemplateParameter(_, _)
RECURSIVE ParseParameterKids(_, _, _, _, _)

\* a statement after one that may raise: the exception passes through
Then(r, F(_)) == IF r.exc # "" THEN r ELSE F(r)

\* out += s, when there is an s
IaddText(h, out, s) == IF s = <<>> THEN Ret(h, WRef(out)) ELSE Iadd(h, out, Str(s))

\* a text builder that flattens whatever `flatten` says
ParseWikiTextFlat(h, root, flatten) ==
    Then(NewWikiText(h, <<>>),
         LAMBDA r0 : Then(IaddText(r0.h, r0.v.id, root.text),
                          LAMBDA r1 : ParseKids(r1.h, r1.v.id, root.kids, 1, TRUE)))

\* WParser._parse_wiki_text(root, flatten)
ParseWikiText(h, root, flatten) ==
    Then(NewWikiText(h, <<>>),
         LAMBDA r0 : Then(IaddText(r0.h, r0.v.id, root.text),
                          LAMBDA r1 : ParseKids(r1.h, r1.v.id, root.kids, 1, flatten)))

\* its loop `for x in root`, from child i on, appending to `out`
ParseKids(h, out, kids, i, flatten) ==
    IF i > Len(kids) THEN Ret(h, WRef(out))
    ELSE
        LET x == kids[i]
            r == IF x.tag = "template" THEN ParseWikiTemplate(h, x)
                 ELSE IF x.tag = "ext" THEN ParseWikiExt(h, x)
                 ELSE IF flatten THEN ParseWikiText(h, x, flatten)
                 ELSE Ret(h, Str(<<>>))         \* skipped: nothing is appended
        IN  Then(r, LAMBDA a : Then(Iadd(a.h, out, a.v),
                 LAMBDA b : Then(IaddText(b.h, out, x.tail),
                 LAMBDA c : ParseKids(c.h, out, kids, i + 1, flatten))))

\* WParser._parse_wiki_ext(root)
ParseWikiExt(h, root) ==
    ParseExtKids(h, root.kids, 1, [name |-> None, attr |-> None, inner |-> None, close |-> None])

ParseExtKids(h, kids, i, ext) ==
    IF i > Len(kids) THEN Squash(h, ext.name, ext.attr, ext.inner, ext.close)
    ELSE
        LET x == kids[i] IN
        IF x.tag = "name" THEN ParseExtKids(h, kids, i + 1, [ext EXCEPT !.name = XmlText(x.text)])
        ELSE IF x.tag = "attr" THEN ParseExtKids(h, kids, i + 1, [ext EXCEPT !.attr = XmlText(x.text)])
        ELSE IF x.tag = "inner" THEN
            Then(ParseWikiText(h, x, TRUE),
                 LAMBDA r : ParseExtKids(r.h, kids, i + 1, [ext EXCEPT !.inner = r.v]))
        ELSE IF x.tag = "close" THEN ParseExtKids(h, kids, i + 1, [ext EXCEPT !.close = XmlText(x.text)])
        ELSE ParseExtKids(h, kids, i + 1, ext)

\* WParser._parse_wiki_template(root)
ParseWikiTemplate(h, root) ==
    Then(NewTemplate(h, None, <<>>, None), LAMBDA r : ParseTemplateKids(r.h, r.v.id, root.kids, 1))

ParseTemplateKids(h, t, kids, i) ==
    IF i > Len(kids) THEN Ret(h, TRef(t))
    ELSE
        LET x == kids[i] IN
        IF x.tag = "title" THEN
            Then(ParseWikiText(h, x, FALSE),
                 LAMBDA r : ParseTemplateKids([r.h EXCEPT !.tp[t].title = Str(PyStr(r.h, r.v))], t, kids, i + 1))
        ELSE IF x.tag = "part" THEN
            Then(ParseTemplateParameter(h, x),
                 LAMBDA r : Then(SetItem(r.h, t, r.v.key, r.v.value),               \* set_param
                 LAMBDA s : ParseTemplateKids(s.h, t, kids, i + 1)))
        ELSE ParseTemplateKids(h, t, kids, i + 1)

\* WParser._parse_template_parameter(root): returns the pair [key, value]
ParseTemplateParameter(h, root) == ParseParameterKids(h, root.kids, 1, None, None)

\* the key of a part, its name's text taken as written
ParameterKeyNoStrip(x) ==
    IF x.index # <<>> THEN [exc |-> "", key |-> Str(x.index)]
    ELSE IF x.text = <<>> THEN [exc |-> "AttributeError", key |-> None]
    ELSE [exc |-> "", key |-> Str(x.text)]

\* key = x.get("index") or x.text.strip()
ParameterKey(x) ==
    IF x.index # <<>> THEN [exc |-> "", key |-> Str(x.index)]
    ELSE IF x.text = <<>> THEN [exc |-> "AttributeError", key |-> None]     \* None.strip()
    ELSE [exc |-> "", key |-> Str(Strip(x.text))]

ParseParameterKids(h, kids, i, key, value) ==
    IF i > Len(kids) THEN [h |-> h, v |-> [key |-> key, value |-> value], exc |-> ""]
    ELSE
        LET x == kids[i] IN
        IF x.tag = "name" THEN
            LET k == ParameterKey(x) IN
            IF k.exc # "" THEN Raise(h, k.exc) ELSE ParseParameterKids(h, kids, i + 1, k.key, value)
        ELSE IF x.tag = "value" THEN
            Then(ParseWikiText(h, x, TRUE), LAMBDA r : ParseParameterKids(r.h, kids, i + 1, key, r.v))
        ELSE ParseParameterKids(h, kids, i + 1, key, value)

\* ------------------------------------------------ titles and normalize
\* the namespaces of the wiki besides Main: NSManager.ns_regex matches the
\* prefix of one at the start of a title, whatever its case
TemplatePrefix == <<"T", "e", "m", "p", "l", "a", "t", "e", ":">>
TalkPrefix == <<"T", "a", "l", "k", ":">>
NsPrefixes == { TemplatePrefix, TalkPrefix }
MainName == <<"M", "a", "i", "n">>

LowerChar(c) == IF c = "T" THEN "t" ELSE IF c = "U" THEN "u" ELSE c
UpperChar(c) == IF c = "t" THEN "T" ELSE IF c = "u" THEN "U" ELSE c
Lower(s) == [i \in 1..Len(s) |-> LowerChar(s[i])]
UpperFirst(s) == [i \in 1..Len(s) |-> IF i = 1 THEN UpperChar(s[i]) ELSE s[i]]

StartsWithNs(title, p) == Len(title) >= Len(p) /\ Lower(SubSeq(title, 1, Len(p))) = Lower(p)

\* ns_regex.match(title)[0]: the prefix as the title writes it, <<>> when there is none
MatchNs(title) ==
    IF \E p \in NsPrefixes : StartsWithNs(title, p)
    THEN SubSeq(title, 1, Len(CHOOSE p \in NsPrefixes : StartsWithNs(title, p)))
    ELSE <<>>

\* Wiki.which_ns(title)
WhichNs(title) == IF MatchNs(title) = <<>> THEN MainName ELSE SubSeq(MatchNs(title), 1, Len(MatchNs(title)) - 1)

\* Wiki.in_ns(title, ns), ns the name of a namespace: the lookup table of
\* NSManager holds each name as the server spells it
InNs(title, ns) == WhichNs(title) = ns

\* NSManager.nss(title)
Nss(title) == SubSeq(title, Len(MatchNs(title)) + 1, Len(title))

\* Wiki.convert_ns(title, NS.TEMPLATE)
ConvertToTemplate(title) == TemplatePrefix \o Nss(title)

\* The title service's answer to action=query&titles=..: the namespace
\* prefix in its canonical spelling and the first letter of the page in
\* upper case.
NormalizedTitle(title) ==
    IF MatchNs(title) = <<>> THEN UpperFirst(title)
    ELSE (CHOOSE p \in NsPrefixes : StartsWithNs(title, p)) \o UpperFirst(Nss(title))

\* The title service's answer with redirects=1: Template:U redirects to
\* Template:T; _pair_titles_query maps every other title to itself
RedirectTarget(title) ==
    IF title = TemplatePrefix \o <<"U">> THEN TemplatePrefix \o <<"T">> ELSE title

\* OQuery._pair_titles_query: what the service maps title k to
PairTitlesQuery(k, redirects) == IF redirects THEN RedirectTarget(k) ELSE NormalizedTitle(k)

PyList(items) == [ty |-> "list", s |-> <<>>, id |-> 0, items |-> items]

RECURSIVE TitleMap(_, _, _, _)
\* m = {key(t.title): t for t in tl}: a later template replaces an earlier one with the same key
TitleMap(h, tl, m, bypass) ==
    IF tl = <<>> THEN m
    ELSE LET title == h.tp[Head(tl).id].title.s
             k == IF bypass /\ InNs(title, MainName) THEN ConvertToTemplate(title) ELSE title
         IN  TitleMap(h, Tail(tl), DictSet(m, k, Head(tl).id), bypass)

RECURSIVE SetTitles(_, _, _)
\* for k, v in ...(wiki, list(m.keys())).items(): m[k].title = wiki.nss(v) if wiki.in_ns(v, NS.TEMPLATE) else v
SetTitles(h, m, redirects) ==
    IF m = <<>> THEN h
    ELSE LET v == PairTitlesQuery(Head(m).k, redirects)
             title == IF InNs(v, SubSeq(TemplatePrefix, 1, Len(TemplatePrefix) - 1)) THEN Nss(v) ELSE v
         IN  SetTitles([h EXCEPT !.tp[Head(m).v].title = Str(title)], Tail(m), redirects)

\* a normalize that retitles every template of the heap
NormalizeEvery(h, tl, bypass_redirects) ==
    LET every == [i \in 1..Len(h.tp) |-> TRef(i)]
        h1 == SetTitles(h, TitleMap(h, every, <<>>, FALSE), FALSE)
        h2 == IF bypass_redirects THEN SetTitles(h1, TitleMap(h1, every, <<>>, TRUE), TRUE) ELSE h1
    IN  Ret(h2, PyList(tl))

\* WikiTemplate.normalize(wiki, *tl, bypass_redirects): "|".join of the titles
\* raises TypeError when a title is not a str
Normalize(h, tl, bypass_redirects) ==
    IF \E i \in 1..Len(tl) : ~IsStr(h.tp[tl[i].id].title) THEN Raise(h, "TypeError")
    ELSE LET h1 == SetTitles(h, TitleMap(h, tl, <<>>, FALSE), FALSE)
             h2 == IF bypass_redirects THEN SetTitles(h1, TitleMap(h1, tl, <<>>, TRUE), TRUE) ELSE h1
         IN  Ret(h2, PyList(tl))

\* -------------------------------------------------------------- reads
\* WikiText.as_text(trim), and str(w), which is as_text(True)
AsText(h, w, trim) == Ret(h, Str(WikiTextAsText(h, w, trim)))

\* WikiTemplate.as_text(indent), and str(t), which is as_text()
TemplateText(h, t, indent) == Ret(h, Str(TemplateAsText(h, t, indent)))

\* for wt in curr.values(): q.extend(wt.templates), from parameter i on
RECURSIVE ValueTemplates(_, _, _)
ValueTemplates(h, ps, i) ==
    IF i > Len(ps) THEN <<>> ELSE Templates(h, ps[i].v.id) \o ValueTemplates(h, ps, i + 1)

RECURSIVE AllTemplatesLoop(_, _, _)
\* while q: out.append(curr := q.pop()); ... -- pop takes the right end of the deque
AllTemplatesLoop(h, q, out) ==
    IF q = <<>> THEN Ret(h, PyList(out))
    ELSE AllTemplatesLoop(h, SubSeq(q, 1, Len(q) - 1) \o ValueTemplates(h, h.tp[q[Len(q)].id].params, 1),
                          Append(out, q[Len(q)]))

\* all_templates() returning the templates property
AllTemplatesTopLevel(h, w) == Ret(h, PyList(Templates(h, w)))

\* WikiText.all_templates()
AllTemplates(h, w) == AllTemplatesLoop(h, Templates(h, w), <<>>)

\* a lookup that stores an empty WikiText under a missing key
GetItemSetDefault(h, t, k) ==
    IF ~Contains(h, t, k)
    THEN LET r == NewWikiText(h, <<>>) IN Ret([r.h EXCEPT !.tp[t].params = DictSet(@, k, r.v)], r.v)
    ELSE Ret(h, DictGet(h.tp[t].params, k))

\* WikiTemplate.__getitem__(key)
GetItem(h, t, k) ==
    IF ~Contains(h, t, k) THEN Raise(h, "KeyError") ELSE Ret(h, DictGet(h.tp[t].params, k))

\* WikiTemplate.get_param(k, default)
GetParam(h, t, k, default) ==
    Ret(h, IF HasKey(h.tp[t].params, k) THEN DictGet(h.tp[t].params, k) ELSE default)

\* WikiTemplate.has_key(key, empty_ok): bool(_params.get(key)) is WikiText.__bool__
HasKeyMethod(h, t, k, empty_ok) ==
    Ret(h, Bool(Contains(h, t, k) /\ (empty_ok \/ WikiTextBool(h, DictGet(h.tp[t].params, k).id))))

\* ------------------------------------------------- the parse request
\* A JSON object is a function from its keys; <<>> is the empty object {}.
\* utils.has_error(response)
HasError(response) == "error" \in DOMAIN response

\* utils.mine_for(target, key): target.get(key, {}), and None when that is {}
MineFor(target, key) ==
    IF key \in DOMAIN target /\ DOMAIN target[key] # {}
    THEN [found |-> TRUE, val |-> target[key]]
    ELSE [found |-> FALSE, val |-> <<>>]

\* WParser._basic_parse(wiki, pl, big_query): reply.http is "raise" when the
\* request or the decoding of its body raises, and reply.json is the decoded body.
BasicParse(reply) ==
    IF reply.http = "raise"
    THEN \* the except clause logs and falls through to has_error(response),
         \* which reads the local `response` that was never bound
         [exc |-> "UnboundLocalError", found |-> FALSE, val |-> <<>>]
    ELSE IF DOMAIN reply.json = {} THEN [exc |-> "", found |-> FALSE, val |-> <<>>]
    ELSE IF ~HasError(reply.json)
         THEN [exc |-> ""] @@ MineFor(reply.json, "parse")
         ELSE [exc |-> "", found |-> FALSE, val |-> <<>>]

\* WParser.parse(wiki, title, text).  The payload under "parsetree" is
\* [wf, root]: whether the text is a well-formed XML document, and the
\* element ElementTree.fromstring makes of it.  The objects the tree builder
\* made before it raised are unreachable: the heap is left as it was.
Parse(h, title, text, reply) ==
    IF ~(PyBool(title) \/ PyBool(text)) THEN Raise(h, "ValueError")
    ELSE
        LET response == BasicParse(reply) IN
        IF response.exc # "" THEN Raise(h, response.exc)
        ELSE IF ~response.found THEN Ret(h, None)
        ELSE
            LET raw_xml == MineFor(response.val, "parsetree") IN
            IF ~raw_xml.found THEN Raise(h, "TypeError")            \* fromstring(None)
            ELSE IF ~raw_xml.val.wf THEN Raise(h, "ParseError")
            ELSE LET r == ParseWikiText(h, raw_xml.val.root, TRUE) IN
                 IF r.exc # "" THEN Raise(h, r.exc) ELSE r

\* --------------------------------------- parse trees the server sends
\* The remote engine's parse tree of a source text: text and tail hold the
\* source's characters, <template> stands for {{ ... }}, each <part> for
\* |name=value (the name element of a part written without a name carries
\* its position as the index attribute and no text), <ext> for an extension
\* tag, and <comment>, <h>, <ignore> wrap their own markup as text.
MaxParts == 3       \* parts of a template written without a name

Elem(tag, text, kids, tail) ==
    [tag |-> tag, index |-> <<>>, text |-> text, kids |-> kids, tail |-> tail]

WithTail(e, tail) == [e EXCEPT !.tail = tail]

Digit(i) == IF i = 1 THEN "1" ELSE IF i = 2 THEN "2" ELSE IF i = 3 THEN "3" ELSE IF i = 4 THEN "4" ELSE "5"

IndexName(i) == [Elem("name", <<>>, <<>>, <<>>) EXCEPT !.index = <<Digit(i)>>]
PositionalPart(i, value) == Elem("part", <<>>, <<IndexName(i), value>>, <<>>)
NamedPart(name, value) ==
    Elem("part", <<>>, <<Elem("name", name, <<>>, <<>>), Elem("equals", <<"=">>, <<>>, <<>>), value>>, <<>>)
TemplateElem(title, parts) == Elem("template", <<>>, <<title>> \o parts, <<>>)

CommentElem == Elem("comment", <<"<", "!", "-", "-", "c", "-", "-", ">">>, <<>>, <<>>)
InnerTemplate == TemplateElem(Elem("title", <<"U">>, <<>>, <<>>), <<>>)

TitleElems ==
    { Elem("title", <<"T">>, <<>>, <<>>),
      Elem("title", <<" ", "T", " ">>, <<>>, <<>>),
      Elem("title", <<"T">>, <<CommentElem>>, <<>>),
      Elem("title", <<>>, <<WithTail(InnerTemplate, <<"T">>)>>, <<>>) }

ValueElems ==
    { Elem("value", <<"a">>, <<>>, <<>>),
      Elem("value", <<" ", "a", "\n">>, <<>>, <<>>),
      Elem("value", <<>>, <<>>, <<>>),
      Elem("value", <<"a">>, <<WithTail(InnerTemplate, <<"b">>)>>, <<>>),
      Elem("value", <<"a">>, <<WithTail(CommentElem, <<"b">>)>>, <<>>) }

\* the text of a name element, <<>> for the empty name of {{T|=v}}
NameTexts == { <<"k">>, <<" ", "k", " ">>, <<"1">>, <<>> }

\* templates whose parts are all written without a name: {{T|a|b|c}}
RECURSIVE PositionalParts(_)
PositionalParts(n) ==
    IF n = 0 THEN { <<>> }
    ELSE PositionalParts(n - 1)
         \cup { Append(ps, PositionalPart(n, v)) :
                    ps \in { q \in PositionalParts(n - 1) : Len(q) = n - 1 }, v \in ValueElems }

\* up to two parts, each written with or without a name
MixedParts ==
    LET First == { PositionalPart(1, v) : v \in ValueElems }
                 \cup { NamedPart(n, v) : n \in NameTexts, v \in ValueElems }
        Second(p) == { PositionalPart(IF p.kids[1].index # <<>> THEN 2 ELSE 1, v) : v \in {Elem("value", <<"b">>, <<>>, <<>>)} }
                     \cup { NamedPart(n, Elem("value", <<"b">>, <<>>, <<>>)) : n \in NameTexts }
    IN  { <<p>> : p \in First } \cup UNION { { <<p, q>> : q \in Second(p) } : p \in First }

TemplateElems ==
    { TemplateElem(t, ps) : t \in TitleElems, ps \in PositionalParts(MaxParts) \cup MixedParts }

\* <r x>inner</r>, and the self-closing <r x/>, which has no inner and no close
ExtElems ==
    LET name == Elem("name", <<"r">>, <<>>, <<>>)
        close == Elem("close", <<"<", "/", "r", ">">>, <<>>, <<>>)
    IN  { Elem("ext", <<>>, <<name, Elem("attr", a, <<>>, <<>>)>> \o rest, <<>>) :
              a \in { <<>>, <<" ", "x">> },
              rest \in { <<>>, <<Elem("inner", <<>>, <<>>, <<>>), close>>,
                         <<Elem("inner", <<" ", "a", " ">>, <<>>, <<>>), close>> } }

\* a comment, a heading (with a template or a comment in it) and an <includeonly> marker
FlatElems ==
    { CommentElem,
      Elem("h", <<"=", " ", "a", " ", "=">>, <<>>, <<>>),
      Elem("h", <<"=">>, <<WithTail(InnerTemplate, <<"=">>)>>, <<>>),
      Elem("h", <<"=">>, <<WithTail(CommentElem, <<"=">>)>>, <<>>),
      Elem("ignore", <<"<", "i", ">">>, <<>>, <<>>) }

\* the text before and after the root's child
RootTexts == { <<<<>>, <<>>>>, <<<<"a">>, <<>>>>, <<<<>>, <<"a">>>>, <<<<" ", "a">>, <<"a", "\n">>>> }

RootElems ==
    { Elem("root", x[1] \o x[2], <<>>, <<>>) : x \in RootTexts }
    \cup { Elem("root", x[1], <<WithTail(k, x[2])>>, <<>>) :
               x \in RootTexts, k \in TemplateElems \cup ExtElems \cup FlatElems }
    \cup { Elem("root", <<>>, <<WithTail(k1, <<"a">>), k2>>, <<>>) :
               k1 \in ExtElems \cup FlatElems, k2 \in FlatElems \cup {InnerTemplate} }

HasKid(e, tag) == \E i \in 1..Len(e.kids) : e.kids[i].tag = tag
Kid(e, tag) == e.kids[CHOOSE i \in 1..Len(e.kids) : e.kids[i].tag = tag]
KidText(e, tag) == IF HasKid(e, tag) THEN Kid(e, tag).text ELSE <<>>

RECURSIVE Source(_)
RECURSIVE SourceKids(_)
\* The source text a parse tree stands for.
Source(e) ==
    IF e.tag = "template" THEN <<"{", "{">> \o SourceKids(e.kids) \o <<"}", "}">>
    ELSE IF e.tag = "part" THEN <<"|">> \o SourceKids(e.kids)
    ELSE IF e.tag = "ext" THEN
        <<"<">> \o KidText(e, "name") \o KidText(e, "attr")
        \o (IF HasKid(e, "inner")
            THEN <<">">> \o Source(Kid(e, "inner")) \o KidText(e, "close")
            ELSE <<"/", ">">>)
    ELSE e.text \o SourceKids(e.kids)

SourceKids(kids) ==
    IF kids = <<>> THEN <<>> ELSE Source(Head(kids)) \o Head(kids).tail \o SourceKids(Tail(kids))

\* ----------------------------------------------------- the requests
NoReq == [title |-> None, text |-> None, http |-> "none", json |-> <<>>]

\* no upload_only call has been made.  A filekey is a string, "" where the
\* code has None or no entry; sent is the log of the chunks posted, each with
\* the bytes it held, the offset it was posted at and the filekey of the
\* acknowledgement ("" when the attempt failed); slept counts the sleeps.
NoUpload ==
    [pc |-> "none", fsize |-> 0, max_retries |-> 0, total_chunks |-> 0, pos |-> 0,
     buffer |-> [start |-> 0, len |-> 0], offset |-> 0, filekey |-> "",
     chunk_count |-> 0, err_count |-> 0, i |-> 0, ret |-> "", exc |-> "",
     sent |-> <<>>, slept |-> 0]

JsonLeaf == [value |-> "x"]

\* what the server may answer to a parse request
FailedReplies ==
    { [http |-> "raise", json |-> <<>>],                                    \* the request raises
      [http |-> "ok", json |-> <<>>],                                       \* an empty reply
      [http |-> "ok", json |-> ("error" :> JsonLeaf)],                      \* a server error
      [http |-> "ok", json |-> ("error" :> JsonLeaf) @@ ("parse" :> ("title" :> JsonLeaf))],  \* an error beside a "parse" object
      [http |-> "ok", json |-> ("warnings" :> JsonLeaf)],                   \* no "parse" object
      [http |-> "ok", json |-> ("parse" :> ("title" :> JsonLeaf))],         \* no "parsetree" payload
      [http |-> "ok", json |-> ("parse" :> (("title" :> JsonLeaf) @@ ("parsetree" :> [wf |-> FALSE, root |-> Elem("root", <<>>, <<>>, <<>>)])))] }  \* malformed XML

TreeReply(root) ==
    [http |-> "ok", json |-> ("parse" :> (("title" :> JsonLeaf) @@ ("parsetree" :> [wf |-> TRUE, root |-> root])))]

\* parse(title=, text=): a page title, a text, both, or neither
ParseArgs ==
    { <<Str(<<"P">>), None>>, <<None, Str(<<"x">>)>>, <<Str(<<"P">>), Str(<<"x">>)>>, <<None, None>> }

Requests ==
    { [title |-> a[1], text |-> a[2], http |-> r.http, json |-> r.json] :
          a \in ParseArgs, r \in FailedReplies }
    \cup { [title |-> None, text |-> Str(<<"x">>)] @@ TreeReply(root) : root \in RootElems }

\* ------------------------------------------------------ the machine
\* The record of a call: its name, receiver, arguments, the value returned or
\* the exception raised, and for drop() the receiver's parent before the call.
NoCall == [op |-> "none", self |-> None, args |-> <<>>, res |-> None, exc |-> "", pre |-> None]

Call(op, self, args, r, pre) ==
    [op |-> op, self |-> self, args |-> args, res |-> r.v, exc |-> r.exc, pre |-> pre]

Init ==
    /\ wt = <<>>
    /\ tp = <<>>
    /\ last = NoCall
    /\ req = NoReq
    /\ up = NoUpload

InitParse ==
    /\ wt = <<>>
    /\ tp = <<>>
    /\ last = NoCall
    /\ req \in Requests
    /\ up = NoUpload

Heap == [wt |-> wt, tp |-> tp]

\* what the caller passes: strings, keys, values of the accepted types
\* (str, WikiTemplate, WikiText) and one of another type
StrArgs == { <<>>, <<"a">> }
OneKey == { Str(<<"1">>) }
KeyArgs == { Str(<<"1">>), Str(<<>>) }
TitleT == Str(<<"T">>)

TRefs(h) == { TRef(i) : i \in 1..Len(h.tp) }
WRefs(h) == { WRef(i) : i \in 1..Len(h.wt) }
Strs == { Str(x) : x \in StrArgs }
Accepted(h) == Strs \cup TRefs(h) \cup WRefs(h)
Values(h) == Accepted(h) \cup { PyInt(1) }

\* the templates held by the parameter values of template t
Nested(h, t) ==
    LET ps == h.tp[t].params IN
    UNION { IF IsWikiText(ps[i].v)
            THEN { n.id : n \in { h.wt[ps[i].v.id][j] : j \in 1..Len(h.wt[ps[i].v.id]) } \cap TRefs(h) }
            ELSE IF IsTemplate(ps[i].v) THEN { ps[i].v.id } ELSE {} : i \in 1..Len(ps) }

RECURSIVE Below(_, _, _)
\* the templates reached from the set S in at most n steps of Nested
Below(h, S, n) ==
    IF n = 0 THEN S ELSE Below(h, S \cup UNION { Nested(h, t) : t \in S }, n - 1)

\* no template is nested inside itself (as_text and == would not return)
Acyclic(h) == \A t \in 1..Len(h.tp) : t \notin Below(h, Nested(h, t), Len(h.tp))

RECURSIVE Sum(_)
Sum(xs) == IF xs = <<>> THEN 0 ELSE Head(xs) + Sum(Tail(xs))

\* objects, nodes and parameters in the heap
Size(h) ==
    Len(h.wt) + Len(h.tp)
    + Sum([w \in 1..Len(h.wt) |-> Len(h.wt[w])])
    + Sum([t \in 1..Len(h.tp) |-> Len(h.tp[t].params)])

\* the heap is within the bounds of the model, or no larger than it was
Fits(h) ==
    /\ Size(h) <= MaxSize \/ Size(h) <= Size(Heap)
    /\ \A w \in 1..Len(h.wt) : \A i \in 1..Len(h.wt[w]) : Len(h.wt[w][i].s) <= MaxRun

\* a call that returned or raised leaves heap r.h; one that never returns halts the caller
Running == last.exc # "Diverges"

Becomes(r, call) ==
    /\ Running
    /\ Fits(r.h)
    /\ Acyclic(r.h)
    /\ wt' = r.h.wt
    /\ tp' = r.h.tp
    /\ last' = call
    /\ req' = req
    /\ up' = up

\* WikiText(*elements): no element, one, or the string "a" and one more
CallNewWikiText(V) ==
    \E es \in { <<>> } \cup { <<a>> : a \in V } \cup { <<Str(<<"a">>), b>> : b \in V } :
        LET r == NewWikiText(Heap, es) IN Becomes(r, Call("WikiText", None, es, r, None))

\* w += o
CallIadd(V) ==
    \E w \in 1..Len(wt), o \in V :
        LET r == Iadd(Heap, w, o) IN Becomes(r, Call("iadd", WRef(w), <<o>>, r, None))

\* WikiTemplate(title, params, parent): params with at most one entry
CallNewTemplate(T, K, V, P) ==
    \E title \in T, parent \in P,
       kvs \in { <<>> } \cup { <<[k |-> k, v |-> v]>> : k \in K, v \in V } :
        LET r == NewTemplate(Heap, title, kvs, parent) IN
        Becomes(r, Call("WikiTemplate", None,
                        <<title, parent>> \o (IF kvs = <<>> THEN <<>> ELSE <<kvs[1].k, kvs[1].v>>), r, None))

\* t[k] = v, and t.set_param(k, v), which is `self[k] = v`
CallSetItem(K, V) ==
    \E t \in 1..Len(tp), k \in K, v \in V :
        LET r == SetItem(Heap, t, k, v) IN Becomes(r, Call("set", TRef(t), <<k, v>>, r, None))

\* t.pop(k), t.pop()
CallPop(K) ==
    \E t \in 1..Len(tp), k \in K :
        LET r == Pop(Heap, t, k) IN Becomes(r, Call("pop", TRef(t), <<k>>, r, None))

\* t.drop()
CallDrop ==
    \E t \in 1..Len(tp) :
        LET r == Drop(Heap, t) IN Becomes(r, Call("drop", TRef(t), <<>>, r, tp[t].parent))

\* t.remap(old_key, new_key)
CallRemap(K) ==
    \E t \in 1..Len(tp), old \in K, new \in K :
        LET r == Remap(Heap, t, old, new) IN Becomes(r, Call("remap", TRef(t), <<old, new>>, r, None))

\* t.touch(k)
CallTouch(K) ==
    \E t \in 1..Len(tp), k \in K :
        LET r == Touch(Heap, t, k) IN Becomes(r, Call("touch", TRef(t), <<k>>, r, None))

\* t.append_to_params(k, e)
CallAppendToParams(K, V) ==
    \E t \in 1..Len(tp), k \in K, e \in V :
        LET r == AppendToParams(Heap, t, k, e) IN
        Becomes(r, Call("append_to_params", TRef(t), <<k, e>>, r, None))

\* parse(wiki, title, text) with request rq: the caller's first call
CallParse(rq) ==
    /\ last.op = "none"
    /\ wt = <<>>
    /\ tp = <<>>
    /\ LET r == Parse(Heap, rq.title, rq.text, [http |-> rq.http, json |-> rq.json]) IN
       /\ wt' = r.h.wt
       /\ tp' = r.h.tp
       /\ last' = Call("parse", None, <<rq.title, rq.text>>, r, None)
       /\ req' = rq
       /\ up' = up

\* the pages the caller parses before editing them: a{{T|a}} and {{T| k =a|a}}a
DocRoots ==
    LET title == Elem("title", <<"T">>, <<>>, <<>>)
        value == Elem("value", <<"a">>, <<>>, <<>>)
    IN  { Elem("root", <<"a">>, <<TemplateElem(title, <<PositionalPart(1, value)>>)>>, <<>>),
          Elem("root", <<>>, <<WithTail(TemplateElem(title, <<NamedPart(<<" ", "k", " ">>, value),
                                                                  PositionalPart(1, value)>>), <<"a">>)>>, <<>>) }

CallParseDoc ==
    \E root \in DocRoots :
        CallParse([title |-> None, text |-> Str(<<"x">>)] @@ TreeReply(root))

\* Two templates to compare, as a caller builds them: the leaves {{U}} (objects
\* 1 and 2), template 3 titled T and template 4 titled T or U, each with up
\* to two parameters "1" and "k" set in either order to "a", "b" or its leaf,
\* and template 3 a node of a WikiText or of none.
EqParams(leaf) ==
    LET K == { Str(<<"1">>), Str(<<"k">>) }
        V == { Str(<<"a">>), Str(<<"b">>), TRef(leaf) }
    IN  { <<>> } \cup { <<[k |-> k, v |-> v]>> : k \in K, v \in V }
        \cup { <<[k |-> ks[1], v |-> v1], [k |-> ks[2], v |-> v2]>> :
                   ks \in { <<Str(<<"1">>), Str(<<"k">>)>>, <<Str(<<"k">>), Str(<<"1">>)>> }, v1 \in V, v2 \in V }

EqHeap(kva, title, kvb, held) ==
    LET r1 == NewTemplate(EmptyHeap, Str(<<"U">>), <<>>, None)
        r2 == NewTemplate(r1.h, Str(<<"U">>), <<>>, None)
        r3 == NewTemplate(r2.h, TitleT, kva, None)
        r4 == NewTemplate(r3.h, title, kvb, None)
    IN  IF held THEN NewWikiText(r4.h, <<r3.v>>).h ELSE r4.h

EqHeaps ==
    { EqHeap(kva, title, kvb, held) :
          kva \in EqParams(1), title \in { TitleT, Str(<<"U">>) }, kvb \in EqParams(2), held \in BOOLEAN }

InitEq ==
    /\ \E h \in EqHeaps : wt = h.wt /\ tp = h.tp
    /\ last = NoCall
    /\ req = NoReq
    /\ up = NoUpload

\* a == b for two templates
CallEq ==
    \E a \in TRefs(Heap), b \in TRefs(Heap) :
        LET r == Ret(Heap, Bool(PyEq(Heap, a, b))) IN Becomes(r, Call("eq", a, <<b>>, r, None))

NextEq == CallEq

SpecEq == InitEq /\ [][NextEq]_vars

\* the titles a caller gives its templates
TitleArgs ==
    { Str(<<"t">>), Str(<<"T">>), Str(<<"t", "e", "m", "p", "l", "a", "t", "e", ":", "t">>),
      Str(TemplatePrefix \o <<"U">>), Str(<<"U">>), Str(<<"t", "a", "l", "k", ":", "t">>) }

\* WikiTemplate(title), at most MaxTemplates of them
CallNewTitled == Len(tp) < MaxTemplates /\ CallNewTemplate(TitleArgs, {}, {}, { None })

\* WikiTemplate(title, {"1": t}): a template holding another as a parameter value
CallNewHolder == Len(tp) < MaxTemplates /\ CallNewTemplate(TitleArgs, OneKey, TRefs(Heap), { None })

\* WikiTemplate.normalize(wiki, t) and WikiTemplate.normalize(wiki, t1, t2), with or without bypass_redirects
CallNormalize ==
    \E tl \in { <<a>> : a \in TRefs(Heap) } \cup { <<a, b>> : a, b \in TRefs(Heap) }, bypass \in BOOLEAN :
        LET r == Normalize(Heap, tl, bypass) IN
        Becomes(r, Call("normalize", None, <<PyList(tl), PyInt(IF bypass THEN 1 ELSE 0)>>, r, None))

\* a caller normalizing the titles of its templates
NextNormalize == CallNewTitled \/ CallNewHolder \/ CallNormalize

SpecNormalize == Init /\ [][NextNormalize]_vars

\* ---------------------------------------------------- revision metadata
\* the metadata kinds, by the name of their prop in the request and the reply
MetaKinds == { "categories", "externallinks", "images", "links", "templates" }

PyDict(items) == [ty |-> "dict", s |-> <<>>, id |-> 0, items |-> items]

\* NSManager.batch_convert_ns(titles, ns, True): underscores become spaces,
\* the prefix of a title is replaced by the canonical prefix of ns
BatchConvertNs(titles, prefix) ==
    [i \in 1..Len(titles) |-> prefix \o Nss([j \in 1..Len(titles[i]) |-> IF titles[i][j] = "_" THEN " " ELSE titles[i][j]])]

\* the key of `out` a key of the reply is stored under
OutKey(k) == IF k = "externallinks" THEN "external_links" ELSE k

\* the value stored for key k of the reply, whose value there is v
OutValue(k, v) ==
    IF k = "categories" THEN BatchConvertNs([i \in 1..Len(v) |-> v[i].category], <<"C", ":">>)
    ELSE IF k = "images" THEN BatchConvertNs(v, <<"F", ":">>)
    ELSE IF k = "externallinks" THEN v
    ELSE [i \in 1..Len(v) |-> v[i].title]

\* WParser.revision_metadata(wiki, r, ...): props are the kinds asked for; the
\* keys of the reply that name no kind are passed over
RevisionMetadata(props, reply) ==
    LET result == BasicParse(reply) IN
    IF result.exc # "" THEN [v |-> None, exc |-> result.exc]
    ELSE IF ~result.found THEN [v |-> None, exc |-> ""]                   \* `return`
    ELSE LET keys == DOMAIN result.val \cap MetaKinds IN
         [v |-> PyDict([k \in { OutKey(x) : x \in keys } |->
                            OutValue(CHOOSE x \in keys : OutKey(x) = k,
                                     result.val[CHOOSE x \in keys : OutKey(x) = k])]),
          exc |-> ""]

\* what the reply holds for a kind: nothing, or one entry
MetaValue(k, full) ==
    IF ~full THEN <<>>
    ELSE IF k = "categories" THEN <<[category |-> <<"a", "_", "b">>]>>
    ELSE IF k = "images" THEN <<<<"x">>>>
    ELSE IF k = "externallinks" THEN <<<<"u">>>>
    ELSE <<[title |-> <<"T">>]>>

\* The server's answers to a metadata request for props: a failure, or a
\* "parse" object with the page title and one list for each prop.
MetaReplies(props) ==
    { r \in FailedReplies : "parse" \notin DOMAIN r.json }
    \cup { [http |-> "ok",
            json |-> ("parse" :> (("title" :> JsonLeaf) @@ [k \in props |-> MetaValue(k, full)]))] :
               full \in BOOLEAN }

\* a caller asking for the metadata of a revision
InitMeta ==
    /\ wt = <<>>
    /\ tp = <<>>
    /\ last = NoCall
    /\ req \in UNION { { [title |-> None, text |-> None, http |-> r.http, json |-> r.json, props |-> props] :
                             r \in MetaReplies(props) } : props \in SUBSET MetaKinds }
    /\ up = NoUpload

\* revision_metadata(wiki, r, categories, external_links, images, links, templates)
CallRevisionMetadata ==
    /\ last.op = "none"
    /\ LET r == RevisionMetadata(req.props, [http |-> req.http, json |-> req.json]) IN
       last' = [NoCall EXCEPT !.op = "revision_metadata", !.res = r.v, !.exc = r.exc]
    /\ UNCHANGED <<wt, tp, req, up>>

NextMeta == CallRevisionMetadata

SpecMeta == InitMeta /\ [][NextMeta]_vars

\* ------------------------------------------------------ chunked upload
MaxFile == 5        \* bytes in the file to upload
MaxRetries == 2     \* max_retries of an upload

\* _CHUNKSIZE, 4 MiB in the code: two bytes here, so that files of one to
\* three chunks, whole and partial, fit
CHUNKSIZE == 2

FileKeys == { "k1", "k2" }

\* the outcomes of posting a chunk: a filekey mined from a validated
\* response, or "" (no response, an error, a bad result, no filekey)
Replies == { "" } \cup FileKeys

\* the outcomes of the search of the stashed files: no matching entry, or
\* the first entry with the filekey or the size of the upload
Stashed == { [key |-> "", status |-> ""] } \cup
           [key : FileKeys, status : { "finished", "pending" }]

Min2(a, b) == IF a < b THEN a ELSE b

\* upload_only up to the loop
UploadOnly(fsize, max_retries) ==
    IF fsize = 0
    THEN [NoUpload EXCEPT !.pc = "done", !.exc = "OSError"]
    ELSE [NoUpload EXCEPT !.pc = "read", !.fsize = fsize, !.max_retries = max_retries,
                          !.total_chunks = fsize \div CHUNKSIZE + 1]

\* buffer := f.read(_CHUNKSIZE), the test of the while loop
Read(u) ==
    LET n == Min2(CHUNKSIZE, u.fsize - u.pos) IN
    IF n = 0
    THEN [u EXCEPT !.pc = "after"]
    ELSE [u EXCEPT !.pc = "post", !.buffer = [start |-> u.pos, len |-> n], !.pos = u.pos + n]

\* the body of the while loop, the server answering reply
Post(u, reply) ==
    LET s == Append(u.sent, [start |-> u.buffer.start, len |-> u.buffer.len,
                             offset |-> u.offset, filekey |-> reply]) IN
    IF reply # ""
    THEN [u EXCEPT !.sent = s, !.pc = "read", !.chunk_count = u.chunk_count + 1,
                   !.offset = CHUNKSIZE * (u.chunk_count + 1), !.filekey = reply]
    ELSE IF u.err_count + 1 > u.max_retries
         THEN [u EXCEPT !.sent = s, !.err_count = u.err_count + 1, !.pc = "done", !.ret = ""]
         ELSE [u EXCEPT !.sent = s, !.err_count = u.err_count + 1, !.pc = "read"]

\* the test after the loop
AfterLoop(u) ==
    IF u.chunk_count = u.total_chunks - 1
    THEN [u EXCEPT !.pc = "recover", !.i = 0]
    ELSE [u EXCEPT !.pc = "done", !.ret = u.filekey]

\* one pass of the recovery loop, the search answering t
Recover(u, t) ==
    IF u.i >= u.max_retries THEN [u EXCEPT !.pc = "done", !.ret = u.filekey]
    ELSE IF u.filekey = "" THEN [u EXCEPT !.pc = "done", !.exc = "KeyError"]
    ELSE IF t.key = "" THEN [u EXCEPT !.slept = u.slept + 1, !.pc = "done", !.ret = ""]
    ELSE IF t.status = "finished"
         THEN [u EXCEPT !.slept = u.slept + 1, !.pc = "done", !.ret = t.key]
         ELSE [u EXCEPT !.slept = u.slept + 1, !.i = u.i + 1]

CallUploadOnly ==
    /\ up.pc = "none"
    /\ \E fsize \in 0..MaxFile, max_retries \in 0..MaxRetries :
           up' = UploadOnly(fsize, max_retries)
    /\ UNCHANGED <<wt, tp, last, req>>

ReadChunk ==
    /\ up.pc = "read"
    /\ up' = Read(up)
    /\ UNCHANGED <<wt, tp, last, req>>

PostChunk ==
    /\ up.pc = "post"
    /\ \E reply \in Replies : up' = Post(up, reply)
    /\ UNCHANGED <<wt, tp, last, req>>

LeaveLoop ==
    /\ up.pc = "after"
    /\ up' = AfterLoop(up)
    /\ UNCHANGED <<wt, tp, last, req>>

RecoverFilekey ==
    /\ up.pc = "recover"
    /\ \E t \in Stashed : up' = Recover(up, t)
    /\ UNCHANGED <<wt, tp, last, req>>

NextUpload == CallUploadOnly \/ ReadChunk \/ PostChunk \/ LeaveLoop \/ RecoverFilekey

SpecUpload == Init /\ [][NextUpload]_vars

\* A caller building trees: WikiTexts, templates in them, WikiTexts as the
\* parameter values of templates, and templates dropped from their parent.
Next ==
    \/ CallNewWikiText(Accepted(Heap))
    \/ CallIadd(Accepted(Heap))
    \/ CallNewTemplate({ TitleT }, OneKey, Accepted(Heap), { None })
    \/ CallNewTemplate({ TitleT }, {}, {}, WRefs(Heap))
    \/ CallSetItem(OneKey, Accepted(Heap))
    \/ CallDrop

Spec == Init /\ [][Next]_vars

\* the same caller making no drop() call
NextAppend ==
    \/ CallNewWikiText(Accepted(Heap))
    \/ CallIadd(Accepted(Heap))
    \/ CallNewTemplate({ TitleT }, OneKey, Accepted(Heap), { None })
    \/ CallNewTemplate({ TitleT }, {}, {}, WRefs(Heap))
    \/ CallSetItem(OneKey, Accepted(Heap))

SpecAppend == Init /\ [][NextAppend]_vars

\* A caller editing the parameters of templates, built or parsed.
NextParams ==
    \/ CallNewWikiText(Strs)
    \/ CallNewTemplate({ TitleT }, KeyArgs, Strs, { None })
    \/ CallSetItem(KeyArgs \cup { None }, Values(Heap))
    \/ CallPop(KeyArgs \cup { None })
    \/ CallRemap(KeyArgs)
    \/ CallTouch(KeyArgs)
    \/ CallAppendToParams(KeyArgs, Values(Heap))
    \/ CallParseDoc

SpecParams == Init /\ [][NextParams]_vars

\* the parser alone: one parse call per request and reply
NextParse == CallParse(req)

SpecParse == InitParse /\ [][NextParse]_vars

\* A caller reading a page it parsed.  The pages nest templates MaxDepth deep:
\* {{U}}, {{T|a{{..}}}} and {{T|k={{..}}{{U}}|}} around a page one level
\* shallower, one of them alone or with a second template after it.
RECURSIVE TreeElems(_)
TreeElems(n) ==
    IF n = 0 THEN { InnerTemplate }
    ELSE LET S == TreeElems(n - 1)
             title == Elem("title", <<"T">>, <<>>, <<>>)
         IN  S \cup { TemplateElem(title, <<PositionalPart(1, Elem("value", <<"a">>, <<e>>, <<>>))>>) : e \in S }
               \cup { TemplateElem(title, <<NamedPart(<<"k">>, Elem("value", <<>>, <<e, InnerTemplate>>, <<>>)),
                                            PositionalPart(1, Elem("value", <<>>, <<>>, <<>>))>>) : e \in S }

TreeRoots ==
    { Elem("root", <<>>, <<e>>, <<>>) : e \in TreeElems(MaxDepth) }
    \cup { Elem("root", <<>>, <<WithTail(e, <<"a">>), f>>, <<>>) : e \in TreeElems(MaxDepth), f \in TreeElems(1) }

CallParseTree ==
    \E root \in TreeRoots :
        CallParse([title |-> None, text |-> Str(<<"x">>)] @@ TreeReply(root))

\* the keys the caller looks up: two the pages use and one they do not
ReadKeys == { Str(<<"1">>), Str(<<"k">>), Str(<<"z">>) }

\* a read: the heap it leaves and the call it was
Reads(r, call) ==
    /\ wt # <<>>
    /\ wt' = r.h.wt
    /\ tp' = r.h.tp
    /\ last' = call
    /\ req' = req
    /\ up' = up

\* w.as_text(trim), str(w)
CallAsText ==
    \E w \in 1..Len(wt), trim \in BOOLEAN :
        LET r == AsText(Heap, w, trim) IN Reads(r, Call("as_text", WRef(w), <<Bool(trim)>>, r, None))

\* t.as_text(indent), str(t)
CallTemplateText ==
    \E t \in 1..Len(tp), indent \in BOOLEAN :
        LET r == TemplateText(Heap, t, indent) IN Reads(r, Call("as_text", TRef(t), <<Bool(indent)>>, r, None))

\* w.templates
CallTemplates ==
    \E w \in 1..Len(wt) :
        LET r == Ret(Heap, PyList(Templates(Heap, w))) IN Reads(r, Call("templates", WRef(w), <<>>, r, None))

\* w.all_templates()
CallAllTemplates ==
    \E w \in 1..Len(wt) :
        LET r == AllTemplates(Heap, w) IN Reads(r, Call("all_templates", WRef(w), <<>>, r, None))

\* t[k]
CallGetItem ==
    \E t \in 1..Len(tp), k \in ReadKeys :
        LET r == GetItem(Heap, t, k) IN Reads(r, Call("getitem", TRef(t), <<k>>, r, None))

\* t.has_key(k, empty_ok)
CallHasKey ==
    \E t \in 1..Len(tp), k \in ReadKeys, empty_ok \in BOOLEAN :
        LET r == HasKeyMethod(Heap, t, k, empty_ok) IN
        Reads(r, Call("has_key", TRef(t), <<k, Bool(empty_ok)>>, r, None))

\* t.get_param(k)
CallGetParam ==
    \E t \in 1..Len(tp), k \in ReadKeys :
        LET r == GetParam(Heap, t, k, None) IN Reads(r, Call("get_param", TRef(t), <<k>>, r, None))

NextRead ==
    \/ CallParseTree
    \/ CallAsText
    \/ CallTemplateText
    \/ CallTemplates
    \/ CallAllTemplates
    \/ CallGetItem
    \/ CallHasKey
    \/ CallGetParam

SpecRead == Init /\ [][NextRead]_vars

\* ------------------------------------------- the parser's properties
Parsed == last.op = "parse"

\* parse() was given a title or a text
Asked == PyBool(req.title) \/ PyBool(req.text)

\* the reply carries a parse tree that is a well-formed XML document
HasTree ==
    /\ req.http = "ok"
    /\ ~HasError(req.json)
    /\ "parse" \in DOMAIN req.json
    /\ "parsetree" \in DOMAIN req.json["parse"]
    /\ req.json["parse"]["parsetree"].wf

Root == req.json["parse"]["parsetree"].root

\* as_text() of the tree parse() returned
Rendered == WikiTextAsText(Heap, last.res.id, FALSE)

Returned == Parsed /\ Asked /\ HasTree /\ last.exc = ""

\* the parts of a template element, and the name and value of a part
Parts(e) == SelectSeq(e.kids, LAMBDA k : k.tag = "part")
RawName(part) == IF Kid(part, "name").index # <<>> THEN Kid(part, "name").index ELSE Kid(part, "name").text
Distinct(xs) == \A i, j \in 1..Len(xs) : xs[i] = xs[j] => i = j

RECURSIVE Explicit(_)
\* The source is written the way as_text() writes: every extension tag has a
\* closing tag, a title holds no comment, heading or marker, titles and
\* values have no whitespace at either end, and every part of a template has
\* a name of its own, not empty and without whitespace at either end.
Explicit(e) ==
    /\ \A i \in 1..Len(e.kids) : Explicit(e.kids[i])
    /\ e.tag = "ext" => HasKid(e, "inner") /\ HasKid(e, "close")
    /\ e.tag = "title" => /\ \A i \in 1..Len(e.kids) : e.kids[i].tag \in { "template", "ext" }
                          /\ Source(e) = Strip(Source(e))
    /\ e.tag = "value" => Source(e) = Strip(Source(e))
    /\ e.tag = "name" => e.index = <<>> /\ e.text # <<>> /\ e.text = Strip(e.text)
    /\ e.tag = "template" => Distinct([i \in 1..Len(Parts(e)) |-> RawName(Parts(e)[i])])

C7_FailedCallReturnsNone ==
    Parsed /\ Asked /\ (req.http = "raise" \/ DOMAIN req.json = {} \/ HasError(req.json))
        => last.exc = "" /\ last.res = None /\ wt = <<>> /\ tp = <<>>

\* C8: when the reply has no parse-tree payload, or the payload is not a
\* well-formed XML document, parse returns None: it raises nothing and
\* returns no partial tree.
C8_NoTreeReturnsNone ==
    Parsed /\ Asked /\ req.http = "ok" /\ DOMAIN req.json # {} /\ ~HasError(req.json) /\ ~HasTree
        => last.exc = "" /\ last.res = None /\ wt = <<>> /\ tp = <<>>

\* the root holds one template and nothing else but text
OneTemplate == Len(Root.kids) = 1 /\ Root.kids[1].tag = "template"

\* the WikiTemplate built for that template: the one template node of the tree
BuiltId == LET l == wt[last.res.id] IN l[CHOOSE i \in 1..Len(l) : IsTemplate(l[i])].id
Built == tp[BuiltId]

Positional(part) == Kid(part, "name").index # <<>>

\* the key the spec gives a part: its position when it was written without
\* a name, else the trimmed text of its name element
KeyOf(part) == IF Positional(part) THEN Kid(part, "name").index ELSE Strip(Kid(part, "name").text)

\* |key=value for each part, the value with or without its outer whitespace
Written(parts, key(_), value(_)) ==
    Concat([i \in 1..Len(parts) |-> <<"|">> \o key(parts[i]) \o <<"=">> \o value(parts[i])])

ValueSource(part) == Source(Kid(part, "value"))
ValueTrimmed(part) == Strip(ValueSource(part))

\* C9: parsing a template whose n parts were written without a name yields
\* the keys "1".."n" in encounter order, each mapped to its part's value, and
\* as_text() of the template writes the explicit form {{X|1=a|2=b|3=c}}; a
\* part written with a name is keyed by the trimmed text of its name element.
C9_KeySynthesis ==
    Parsed /\ Asked /\ HasTree /\ OneTemplate =>
        /\ last.exc = ""
        /\ LET parts == Parts(Root.kids[1]) IN
           /\ (\A i \in 1..Len(parts) : Positional(parts[i])) =>
                 /\ Len(Built.params) = Len(parts)
                 /\ \A i \in 1..Len(parts) :
                        /\ Built.params[i].k = Str(<<Digit(i)>>)
                        /\ IsWikiText(Built.params[i].v)
                        /\ WikiTextAsText(Heap, Built.params[i].v.id, FALSE) = ValueSource(parts[i])
                 /\ TemplateAsText(Heap, BuiltId, FALSE)
                        = <<"{", "{">> \o Built.title.s \o Written(parts, KeyOf, ValueTrimmed) \o <<"}", "}">>
           /\ \A i \in 1..Len(parts) :
                 ~Positional(parts[i]) => HasKey(Built.params, Str(Strip(Kid(parts[i], "name").text)))

\* the root holds one template with a plain title and plain values, whose
\* parts have keys of their own
PlainTemplate ==
    /\ OneTemplate
    /\ LET e == Root.kids[1] IN
       /\ Kid(e, "title").kids = <<>>
       /\ \A i \in 1..Len(Parts(e)) : Kid(Parts(e)[i], "value").kids = <<>>
       /\ Distinct([i \in 1..Len(Parts(e)) |-> KeyOf(Parts(e)[i])])

\* C10 as stated: the tree builder trims nothing; whitespace at the start
\* and end of the root text, of a template's title, of a parameter's name
\* and of a parameter's value appears unchanged in as_text().
C10_NothingTrimmed ==
    Returned /\ PlainTemplate =>
        LET e == Root.kids[1] IN
        Rendered = Root.text \o <<"{", "{">> \o Kid(e, "title").text
                        \o Written(Parts(e), RawName, ValueSource) \o <<"}", "}">> \o e.tail

\* C10: whitespace at the start and end of the root text appears unchanged
\* in as_text(); a template's title and a parameter's name are stored
\* trimmed; a parameter's value is stored as written and is trimmed when the
\* template is written out; as_text(trim=True) strips the whole result.
C10_TitleNameValueTrimmed ==
    Returned /\ PlainTemplate =>
        LET e == Root.kids[1] IN
        /\ Rendered = Root.text \o <<"{", "{">> \o Strip(Kid(e, "title").text)
                          \o Written(Parts(e), KeyOf, ValueTrimmed) \o <<"}", "}">> \o e.tail
        /\ Built.title = Str(Strip(Kid(e, "title").text))
        /\ \A i \in 1..Len(Parts(e)) :
               /\ Built.params[i].k = Str(KeyOf(Parts(e)[i]))
               /\ WikiTextAsText(Heap, Built.params[i].v.id, FALSE) = ValueSource(Parts(e)[i])
        /\ WikiTextAsText(Heap, last.res.id, TRUE) = Strip(Rendered)

\* " a{{ T | k = a\n}}a\n" was parsed: whitespace around the root text, the title, the name and the value
C10_Witness ==
    /\ Returned
    /\ PlainTemplate
    /\ Root.text = <<" ", "a">>
    /\ Root.kids[1].tail = <<"a", "\n">>
    /\ Kid(Root.kids[1], "title").text = <<" ", "T", " ">>
    /\ Len(Parts(Root.kids[1])) = 1
    /\ RawName(Parts(Root.kids[1])[1]) = <<" ", "k", " ">>
    /\ ValueSource(Parts(Root.kids[1])[1]) = <<" ", "a", "\n">>
    /\ Rendered = <<" ", "a", "{", "{", "T", "|", "k", "=", "a", "}", "}", "a", "\n">>

\* ------------------------------------ the document model's properties
Nodes(l) == { l[i] : i \in 1..Len(l) }

\* two adjacent nodes of list l are both text runs
AdjacentText(l) == \E i \in 1..(Len(l) - 1) : IsStr(l[i]) /\ IsStr(l[i + 1])

\* C2: in every reachable state, after any sequence of appends, drop() calls
\* and parameter mutations, no WikiText has two adjacent nodes that are both
\* text runs.
C2_Coalesced == \A w \in 1..Len(wt) : ~AdjacentText(wt[w])

\* C3: after any sequence of appends of strings (empty ones included),
\* templates and other WikiTexts to a WikiText that started empty or filled
\* by its constructor, its node list never has two consecutive text nodes.
C3_AppendsCoalesce ==
    \A w \in 1..Len(wt) : \A i \in 1..Len(wt[w]) : IsStr(wt[w][i]) => i = Len(wt[w]) \/ ~IsStr(wt[w][i + 1])

\* "a" was appended to a WikiText ending in the run "a" after a template: the run is now "aa"
C3_Witness ==
    /\ last.op = "iadd"
    /\ last.exc = ""
    /\ last.args = <<Str(<<"a">>)>>
    /\ LET l == wt[last.self.id] IN
       /\ Len(l) = 2
       /\ IsTemplate(l[1])
       /\ l[2] = Str(<<"a", "a">>)

\* C4: in every reachable state a WikiTemplate t is a node of a WikiText w if
\* and only if t.parent is w; a template that is a node of no WikiText has
\* parent None.
C4_ParentBackReference ==
    \A t \in 1..Len(tp) :
        /\ \A w \in 1..Len(wt) : TRef(t) \in Nodes(wt[w]) <=> tp[t].parent = WRef(w)
        /\ (\A w \in 1..Len(wt) : TRef(t) \notin Nodes(wt[w])) => tp[t].parent = None

\* how many nodes of list l are the object x itself
Occurrences(l, x) == Cardinality({ i \in 1..Len(l) : l[i] = x })

\* C5: after t.drop() where t's parent was p, and t was one node of p,
\* t.parent is None and t is absent from p's node list (and so from
\* p.templates), also when p holds several structurally equal templates;
\* drop() on a template with no parent changes nothing.
C5_DropRemovesTheTemplate ==
    [][last'.op = "drop" =>
           /\ IsWikiText(last'.pre) /\ Occurrences(wt[last'.pre.id], last'.self) = 1 =>
                  /\ last'.exc = ""
                  /\ tp'[last'.self.id].parent = None
                  /\ last'.self \notin Nodes(wt'[last'.pre.id])
                  /\ last'.self \notin Nodes(Templates([wt |-> wt', tp |-> tp'], last'.pre.id))
           /\ last'.pre = None => last'.exc = "" /\ wt' = wt /\ tp' = tp]_vars

\* C6 as stated: every value stored in a parameter map is a WikiText, and a
\* string or template assigned as a value is stored as a WikiText holding
\* that single node.
C6_ValuesWrapped ==
    /\ \A t \in 1..Len(tp) : \A i \in 1..Len(tp[t].params) : IsWikiText(tp[t].params[i].v)
    /\ last.op = "set" /\ last.exc = "" /\ (IsStr(last.args[2]) \/ IsTemplate(last.args[2])) =>
           LET v == DictGet(tp[last.self.id].params, last.args[1]) IN
           IsWikiText(v) /\ wt[v.id] = <<last.args[2]>>

\* C6: every value stored in a parameter map is a WikiText; a non-empty
\* string or a template assigned as a value is stored as a WikiText holding
\* that single node, and an empty string as a WikiText holding no node.
C6_ValuesAreWikiTexts ==
    /\ \A t \in 1..Len(tp) : \A i \in 1..Len(tp[t].params) :
           /\ IsWikiText(tp[t].params[i].v)
           /\ tp[t].params[i].v.id \in 1..Len(wt)
    /\ last.op = "set" /\ last.exc = "" /\ (IsStr(last.args[2]) \/ IsTemplate(last.args[2])) =>
           LET v == DictGet(tp[last.self.id].params, last.args[1]) IN
           /\ IsWikiText(v)
           /\ wt[v.id] = IF last.args[2] = Str(<<>>) THEN <<>> ELSE <<last.args[2]>>

\* a template was assigned to a parameter and is stored as the one node of a WikiText
C6_Witness ==
    /\ last.op = "set"
    /\ last.exc = ""
    /\ IsTemplate(last.args[2])
    /\ LET v == DictGet(tp[last.self.id].params, last.args[1]) IN
       /\ IsWikiText(v)
       /\ wt[v.id] = <<last.args[2]>>
       /\ tp[last.args[2].id].parent = v

\* ----------------------------------------- the properties of normalize
\* the title normalize is to give a template titled s: the service's
\* canonical form, without its prefix when it is in the Template namespace
CanonicalTitle(s) ==
    LET v == NormalizedTitle(s) IN
    IF StartsWithNs(v, TemplatePrefix) THEN SubSeq(v, Len(TemplatePrefix) + 1, Len(v)) ELSE v

\* C11: normalize(wiki, t1, ..., tn) rewrites the title of every template
\* passed to the canonical form of that template's original title, also
\* when several of the templates passed carry the same title.
C11_NormalizeRetitlesAll ==
    [][last'.op = "normalize" /\ last'.args[2] = PyInt(0) =>
           /\ last'.exc = ""
           /\ \A i \in 1..Len(last'.args[1].items) :
                  LET t == last'.args[1].items[i].id IN
                  tp'[t].title = Str(CanonicalTitle(tp[t].title.s))]_vars

\* ---------------------------------------------- the properties of ==
Keys(ps) == { ps[i].k : i \in 1..Len(ps) }

RECURSIVE SameTemplate(_, _, _)
\* Templates a and b have the same title and the same keys, each mapped to
\* WikiTexts with the same nodes: equal strings, and templates that are the
\* same in this sense (n bounds the depth of nesting).
SameTemplate(a, b, n) ==
    /\ tp[a].title = tp[b].title
    /\ Keys(tp[a].params) = Keys(tp[b].params)
    /\ \A k \in Keys(tp[a].params) :
           LET x == wt[DictGet(tp[a].params, k).id]
               y == wt[DictGet(tp[b].params, k).id]
           IN  /\ Len(x) = Len(y)
               /\ \A i \in 1..Len(x) :
                      IF IsTemplate(x[i]) /\ IsTemplate(y[i])
                      THEN n > 0 /\ SameTemplate(x[i].id, y[i].id, n - 1)
                      ELSE x[i] = y[i]

\* C12: two WikiTemplates are equal if and only if their titles are the same
\* string and their parameter maps hold the same keys with equal values,
\* whatever the order of insertion; the parent reference plays no part.
C12_TemplateEquality ==
    last.op = "eq" =>
        (last.res = Bool(TRUE) <=> SameTemplate(last.self.id, last.args[1].id, Len(tp)))

\* two templates with the same parameters set in opposite orders, one of them inside a WikiText, compared equal
C12_Witness ==
    /\ last.op = "eq"
    /\ last.res = Bool(TRUE)
    /\ last.self # last.args[1]
    /\ Len(tp[last.self.id].params) = 2
    /\ tp[last.self.id].params[1].k = tp[last.args[1].id].params[2].k
    /\ tp[last.self.id].parent # tp[last.args[1].id].parent
    /\ \E i \in 1..2 : \E n \in Nodes(wt[tp[last.self.id].params[i].v.id]) : IsTemplate(n)

\* ------------------------------- the properties of the parameter methods
\* every template but t, and every WikiText, is as it was
OthersUnchanged(t) ==
    /\ wt' = wt
    /\ Len(tp') = Len(tp)
    /\ \A u \in 1..Len(tp) : u # t => tp'[u] = tp[u]
    /\ tp'[t].title = tp[t].title
    /\ tp'[t].parent = tp[t].parent

\* C13: pop(k) with k a string key present in the template, the empty string
\* included, removes exactly the entry of k and returns its value; pop(k)
\* with k absent returns None and changes nothing; pop() with no key removes
\* exactly one entry of a non-empty template and returns its value, and
\* returns None on an empty template.
C13_Pop ==
    [][last'.op = "pop" =>
           LET t == last'.self.id
               k == last'.args[1]
               ps == tp[t].params
           IN  /\ last'.exc = ""
               /\ OthersUnchanged(t)
               /\ IsStr(k) /\ HasKey(ps, k) =>
                      tp'[t].params = DictDel(ps, KeyIndex(ps, k)) /\ last'.res = DictGet(ps, k)
               /\ IsStr(k) /\ ~HasKey(ps, k) => tp'[t].params = ps /\ last'.res = None
               /\ k = None /\ ps = <<>> => tp'[t].params = ps /\ last'.res = None
               /\ k = None /\ ps # <<>> =>
                      \E i \in 1..Len(ps) : tp'[t].params = DictDel(ps, i) /\ last'.res = ps[i].v]_vars

\* C14: after remap(old, new) with old present, for any string keys old and
\* new, new maps to the value old had (overwriting a previous value of new),
\* old is absent when it differs from new, and every other key keeps its
\* value; when old is absent the template is unchanged.
C14_Remap ==
    [][last'.op = "remap" =>
           LET t == last'.self.id
               old == last'.args[1]
               new == last'.args[2]
               ps == tp[t].params
               qs == tp'[t].params
           IN  /\ last'.exc = ""
               /\ OthersUnchanged(t)
               /\ IF HasKey(ps, old)
                  THEN /\ HasKey(qs, new) /\ DictGet(qs, new) = DictGet(ps, old)
                       /\ old # new => ~HasKey(qs, old)
                       /\ Keys(qs) \ { new } = Keys(ps) \ { old, new }
                       /\ \A k \in Keys(ps) \ { old, new } : DictGet(qs, k) = DictGet(ps, k)
                  ELSE qs = ps]_vars

\* the text value v contributes when appended: itself, or its rendering in full
TextOf(h, v) ==
    IF IsStr(v) THEN v.s
    ELSE IF IsTemplate(v) THEN TemplateAsText(h, v.id, FALSE)
    ELSE WikiTextAsText(h, v.id, FALSE)

\* the templates value v contributes when appended
TemplatesOf(h, v) ==
    IF IsStr(v) THEN <<>> ELSE IF IsTemplate(v) THEN <<v>> ELSE Templates(h, v.id)

C16_SetTypeError ==
    [][last'.op = "set" /\ (~IsStr(last'.args[1])
                           \/ ~(IsStr(last'.args[2]) \/ IsTemplate(last'.args[2]) \/ IsWikiText(last'.args[2]))) =>
           /\ last'.exc = "TypeError"
           /\ wt' = wt
           /\ tp' = tp]_vars

\* t["1"] = 1 was refused on a template that has parameters
C16_Witness ==
    /\ last.op = "set"
    /\ last.exc = "TypeError"
    /\ last.args = <<Str(<<"1">>), PyInt(1)>>
    /\ tp[last.self.id].params # <<>>
    /\ \A i \in 1..Len(tp[last.self.id].params) : IsWikiText(tp[last.self.id].params[i].v)

\* the nodes of l other than template t, in order
OtherNodes(l, t) == SelectSeq(l, LAMBDA n : n # TRef(t))

\* C17: t.drop() changes only the node list of t's parent p and t.parent:
\* the other nodes of p keep their order, and a template holding p as a
\* parameter value still maps the same key to the same WikiText p, all its
\* other parameters unchanged.
C17_DropFrame ==
    [][last'.op = "drop" =>
           LET t == last'.self.id
               p == last'.pre
           IN  /\ Len(tp') = Len(tp)
               /\ Len(wt') = Len(wt)
               /\ \A u \in 1..Len(tp) : tp'[u].title = tp[u].title /\ tp'[u].params = tp[u].params
               /\ \A u \in 1..Len(tp) : u # t => tp'[u].parent = tp[u].parent
               /\ \A w \in 1..Len(wt) : ~(IsWikiText(p) /\ w = p.id) => wt'[w] = wt[w]
               /\ IsWikiText(p) => OtherNodes(wt'[p.id], t) = OtherNodes(wt[p.id], t)]_vars

\* --------------------------------------------- the properties of reads
\* the templates reached from the nodes of WikiText w through parameter values
Reachable(h, w) == Below(h, { h.wt[w][j].id : j \in { i \in 1..Len(h.wt[w]) : IsTemplate(h.wt[w][i]) } }, Len(h.tp))

\* the places template u stands at: node j of w (<<0, 0, j>>) or node j of
\* parameter i of a reachable template t (<<t, i, j>>)
Places(h, w, u) ==
    { <<0, 0, j>> : j \in { i \in 1..Len(h.wt[w]) : h.wt[w][i] = TRef(u) } }
    \cup UNION { UNION { { <<t, i, j>> : j \in { n \in 1..Len(h.wt[h.tp[t].params[i].v.id]) :
                                                     h.wt[h.tp[t].params[i].v.id][n] = TRef(u) } } :
                         i \in 1..Len(h.tp[t].params) } : t \in Reachable(h, w) }

\* the templates of w form a tree: none stands at two places
IsTree(h, w) == \A u \in Reachable(h, w) : Cardinality(Places(h, w, u)) = 1

\* C18: for a WikiText whose templates form a tree, all_templates() returns
\* (terminates) and its list holds every template reachable from the
\* top-level templates through parameter values, each exactly once, the
\* top-level templates included.
C18_AllTemplates ==
    (last.op = "all_templates" /\ IsTree(Heap, last.self.id)) =>
        /\ last.exc = ""
        /\ last.res.ty = "list"
        /\ { last.res.items[i] : i \in 1..Len(last.res.items) } = { TRef(u) : u \in Reachable(Heap, last.self.id) }
        /\ \A i, j \in 1..Len(last.res.items) : last.res.items[i] = last.res.items[j] => i = j

\* all_templates() of a page with two top-level templates returned four
\* templates or more, one of them two levels below the page
C18_Witness ==
    /\ last.op = "all_templates"
    /\ last.exc = ""
    /\ IsTree(Heap, last.self.id)
    /\ Len(Templates(Heap, last.self.id)) = 2
    /\ Len(last.res.items) >= 4
    /\ \E i \in 1..Len(last.res.items) :
           last.res.items[i].id \notin Below(Heap, { n.id : n \in { wt[last.self.id][j] : j \in 1..Len(wt[last.self.id]) }
                                                                    \cap TRefs(Heap) }, 1)

ReadOps == { "as_text", "templates", "all_templates", "getitem", "has_key", "get_param" }

\* what as_text of object self returns in heap h
AsTextOf(h, self, flag) ==
    IF IsWikiText(self) THEN WikiTextAsText(h, self.id, flag = Bool(TRUE))
    ELSE TemplateAsText(h, self.id, flag = Bool(TRUE))

\* C19: reading never mutates: as_text() and str() of a WikiText or a
\* WikiTemplate (any trim or indent flag), templates, all_templates(), key
\* lookup, has_key and get_param leave every node list, parameter map, title
\* and parent unchanged, so as_text() called again returns the same string.
C19_ReadsDoNotMutate ==
    [][last'.op \in ReadOps =>
           /\ wt' = wt
           /\ tp' = tp
           /\ last'.op = "as_text" => last'.res = Str(AsTextOf([wt |-> wt', tp |-> tp'], last'.self, last'.args[1]))]_vars

\* t.has_key("1", empty_ok=False) answered False for a parameter "1" that is there and empty
C19_Witness ==
    /\ last.op = "has_key"
    /\ last.args = <<Str(<<"1">>), Bool(FALSE)>>
    /\ last.res = Bool(FALSE)
    /\ Contains(Heap, last.self.id, Str(<<"1">>))
    /\ Len(tp) >= 3

RECURSIVE Flat(_)
\* element e holds text, comments, headings and markers only
Flat(e) == \A i \in 1..Len(e.kids) : e.kids[i].tag \notin { "template", "ext" } /\ Flat(e.kids[i])

RECURSIVE HasComment(_)
HasComment(e) == \E i \in 1..Len(e.kids) : e.kids[i].tag = "comment" \/ HasComment(e.kids[i])

RECURSIVE TitleSource(_)
\* the source of the kids of a title element, its comments left out
TitleSource(kids) ==
    IF kids = <<>> THEN <<>>
    ELSE (IF Head(kids).tag = "comment" THEN <<>> ELSE Source(Head(kids))) \o Head(kids).tail \o TitleSource(Tail(kids))

\* C21: a comment element inside a template's title element contributes no
\* text to the template's title, while a comment element under the root, or
\* inside a parameter value or another flattened tag, contributes its full
\* text, in place, to the surrounding text run.
C21_Comments ==
    /\ Returned /\ OneTemplate =>
           LET e == Root.kids[1] IN
           /\ Built.title = Str(Strip(Kid(e, "title").text \o TitleSource(Kid(e, "title").kids)))
           /\ \A i \in 1..Len(Parts(e)) :
                  LET value == Kid(Parts(e)[i], "value") IN
                  (Flat(value) /\ HasComment(value) /\ Distinct([j \in 1..Len(Parts(e)) |-> KeyOf(Parts(e)[j])])) =>
                      wt[Built.params[i].v.id] = <<Str(Source(value))>>
    /\ Returned /\ Flat(Root) /\ HasComment(Root) => wt[last.res.id] = <<Str(Source(Root))>>

\* {{T<!--c-->|a<!--c-->b}} was parsed: the title is T, the value is the one run a<!--c-->b
C21_Witness ==
    /\ Returned
    /\ OneTemplate
    /\ HasComment(Kid(Root.kids[1], "title"))
    /\ Built.title = Str(<<"T">>)
    /\ Len(Parts(Root.kids[1])) = 1
    /\ HasComment(Kid(Parts(Root.kids[1])[1], "value"))
    /\ wt[Built.params[1].v.id] = <<Str(<<"a", "<", "!", "-", "-", "c", "-", "-", ">", "b">>)>>

\* ------------------------------- the properties of normalize, continued
\* the title normalize with bypass_redirects is to give a template titled
\* s: the redirect target of the normalized title, looked up in the
\* Template namespace when the normalized title is in Main, and without its
\* prefix when the target is in the Template namespace
BypassedTitle(s) ==
    LET n == CanonicalTitle(s)
        k == IF MatchNs(n) = <<>> THEN TemplatePrefix \o n ELSE n
        v == RedirectTarget(k)
    IN  IF StartsWithNs(v, TemplatePrefix) THEN SubSeq(v, Len(TemplatePrefix) + 1, Len(v)) ELSE v

\* C22: with bypass_redirects set, normalize leaves each template's title
\* equal to the redirect target of its normalized title, a normalized title
\* in Main looked up with the Template prefix added and the prefix stripped
\* from the result exactly when the result is in the Template namespace; a
\* title that is not a redirect keeps its normalized form.
C22_NormalizeBypass ==
    [][last'.op = "normalize" /\ last'.args[2] = PyInt(1) =>
           /\ last'.exc = ""
           /\ \A i \in 1..Len(last'.args[1].items) :
                  LET t == last'.args[1].items[i].id IN
                  tp'[t].title = Str(BypassedTitle(tp[t].title.s))]_vars

\* C23: normalize changes nothing but the title of the templates passed to
\* it: their parameter maps, the titles of templates nested inside their
\* parameters and all parent references are unchanged, and the list it
\* returns holds the same template objects in argument order.
C23_NormalizeFrame ==
    [][last'.op = "normalize" =>
           /\ last'.exc = ""
           /\ last'.res = last'.args[1]
           /\ wt' = wt
           /\ Len(tp') = Len(tp)
           /\ \A u \in 1..Len(tp) :
                  /\ tp'[u].params = tp[u].params
                  /\ tp'[u].parent = tp[u].parent
                  /\ (\A i \in 1..Len(last'.args[1].items) : last'.args[1].items[i] # TRef(u)) =>
                         tp'[u].title = tp[u].title]_vars

\* normalize was given a template now titled T whose parameter holds a
\* template that was not passed: that one is still titled t
C23_Witness ==
    /\ last.op = "normalize"
    /\ last.exc = ""
    /\ Len(last.res.items) = 1
    /\ tp[last.res.items[1].id].title = Str(<<"T">>)
    /\ \E u \in Nested(Heap, last.res.items[1].id) :
           /\ tp[u].title = Str(<<"t">>)
           /\ IsWikiText(tp[u].parent)

\* ------------------------------- the properties of revision_metadata
\* C24: revision_metadata called with no metadata kind requested returns an
\* empty mapping, for any revision: it does not fail and does not return
\* the absence value.
C24_NoKindEmptyMapping ==
    (last.op = "revision_metadata" /\ req.props = {}) => last.exc = "" /\ last.res = PyDict(<<>>)

\* --------------------------------- the properties of extension tags
\* the root holds one extension tag and nothing else but text
OneExt == Len(Root.kids) = 1 /\ Root.kids[1].tag = "ext"

\* the text the spec gives an ext element: the opening tag built from name
\* and attr, then the inner content, then the close text
ExtText(e) ==
    <<"<">> \o KidText(e, "name") \o KidText(e, "attr") \o <<">">>
    \o (IF HasKid(e, "inner") THEN Source(Kid(e, "inner")) ELSE <<>>)
    \o KidText(e, "close")

\* C25: for an ext element holding any subset of the children name, attr,
\* inner and close, the builder returns a WikiText whose text is the opening
\* tag built from name and attr, then the inner content, then the close
\* text, an unset attr, inner or close contributing nothing; no such subset
\* makes the builder raise.
C25_ExtSubsets ==
    Parsed /\ Asked /\ HasTree /\ OneExt =>
        /\ last.exc = ""
        /\ Rendered = Root.text \o ExtText(Root.kids[1]) \o Root.kids[1].tail

\* ------------------------------------------ the properties of nodes
\* C26: in every reachable state, every node of every WikiText (a parsed
\* root, a parameter value, or a squashed extension tag) is either a
\* non-empty text run or a WikiTemplate: never a WikiExt, a nested WikiText,
\* an absent value or an empty string.
C26_NodesAreRunsOrTemplates ==
    \A w \in 1..Len(wt) : \A i \in 1..Len(wt[w]) :
        \/ IsStr(wt[w][i]) /\ wt[w][i].s # <<>>
        \/ IsTemplate(wt[w][i]) /\ wt[w][i].id \in 1..Len(tp)

\* " a<r x> a </r>a\n" was parsed: the text around the tag and the squashed tag are one run
C26_Witness ==
    /\ Returned
    /\ OneExt
    /\ HasKid(Root.kids[1], "inner")
    /\ Kid(Root.kids[1], "inner").text # <<>>
    /\ Root.text # <<>>
    /\ Root.kids[1].tail # <<>>
    /\ wt[last.res.id] = <<Str(Source(Root))>>

\* ------------------------------------ the properties of termination
\* C27: WikiText append terminates for every argument it accepts, the
\* receiver itself and a WikiText that shares template nodes with the
\* receiver included.
C27_AppendTerminates ==
    (last.op = "iadd" /\ (IsStr(last.args[1]) \/ IsTemplate(last.args[1]) \/ IsWikiText(last.args[1]))) =>
        last.exc # "Diverges"

\* ------------------------------- the properties of failed mutators
Mutators == { "set", "remap", "touch", "append_to_params" }

\* a caller that hands the mutators of a template keys of any type
NextMutate ==
    \/ CallNewWikiText(Strs)
    \/ CallNewTemplate({ TitleT }, KeyArgs, Strs, { None })
    \/ CallSetItem(KeyArgs \cup { None }, Values(Heap))
    \/ CallRemap(KeyArgs \cup { None })
    \/ CallTouch(KeyArgs \cup { None })
    \/ CallAppendToParams(KeyArgs \cup { None }, Values(Heap))

SpecMutate == Init /\ [][NextMutate]_vars

\* C28: a WikiTemplate mutator call that raises (set, set_param, touch,
\* remap or append_to_params given a non-string key or an unsupported value)
\* leaves the template's parameter map exactly as it was before the call.
C28_FailedMutatorKeepsParams ==
    [][(last'.op \in Mutators /\ last'.exc = "TypeError") =>
           /\ Len(tp') = Len(tp)
           /\ tp'[last'.self.id].params = tp[last'.self.id].params]_vars

\* ------------------------------------------ the properties of the upload
\* the chunks a file of fsize bytes is read in
Chunks(fsize) == (fsize + CHUNKSIZE - 1) \div CHUNKSIZE

Acknowledged(sent) == SelectSeq(sent, LAMBDA e : e.filekey # "")

\* C29: whenever upload_only returns a filekey, every chunk of the file was
\* acknowledged by the server in file order, chunk i at offset
\* i * _CHUNKSIZE; and a chunk whose upload attempt failed is sent again
\* before any later chunk is sent.
C29_ChunksInOrder ==
    /\ (up.pc = "done" /\ up.exc = "" /\ up.ret # "") =>
           LET a == Acknowledged(up.sent) IN
           /\ Len(a) = Chunks(up.fsize)
           /\ \A j \in 1..Len(a) : /\ a[j].start = (j - 1) * CHUNKSIZE
                                   /\ a[j].offset = (j - 1) * CHUNKSIZE
    /\ \A j \in 1..(Len(up.sent) - 1) :
           up.sent[j].filekey = "" => up.sent[j + 1].start = up.sent[j].start

\* C30: the recovery loop (sleep, then search the stashed files) is entered
\* only when the server failed to acknowledge the final chunk; when every
\* chunk read from the file was acknowledged, whatever the size of the file,
\* upload_only returns the filekey of the last acknowledgement without
\* sleeping.
C30_RecoveryOnlyForFinalChunk ==
    /\ up.slept > 0 =>
           LET e == up.sent[Len(up.sent)] IN
           e.filekey = "" /\ e.start + e.len = up.fsize
    /\ (up.pc \in { "after", "recover", "done" } /\ up.exc = ""
          /\ Len(Acknowledged(up.sent)) = Len(up.sent)) =>
           /\ up.slept = 0
           /\ up.pc = "done" => up.ret = up.sent[Len(up.sent)].filekey

====
